---- MODULE Spec2Model ----
(***************************************************************************)
(* Model of the CAP report generators: the chart scripts (plotly figures   *)
(* written to HTML and, optionally, to static images) and the PDF scripts  *)
(* (reportlab stories rendered through a page-numbering canvas).           *)
(*                                                                         *)
(* Each family of operations has its own specification over the shared     *)
(* variables; the variables a specification does not use stay at the idle  *)
(* values of IdleCanvas, IdleStory, ...                                    *)
(***************************************************************************)
EXTENDS Integers, Sequences, FiniteSets, TLC

VARIABLES
    \* ---- the page-numbering canvas of the PDF scripts ----
    canvasmaker,          \* which script's NumberedCanvas class is in use
    _pageNumber,          \* Canvas._pageNumber
    _code,                \* Canvas._code: drawing operators of the current page
    _saved_page_states,   \* NumberedCanvas._saved_page_states
    pdf_pages,            \* pages handed to the PDF document by Canvas.showPage
    canvas_saved,         \* TRUE once save() has returned
    \* ---- create_fortune500_pdf: the story add_visualization appends to ----
    story,                \* the list of flowables
    viz_last,             \* the arguments and outcome of the last add_visualization call
    \* ---- convert_to_images: the conversion loop ----
    conv_pc,              \* "loop" while the for loop runs, "done" after the summary
    conv_i,               \* how many entries of viz_functions the loop has taken
    successful,           \* the script's counter
    failed,               \* the script's counter
    conv_attempts,        \* the names the loop body ran for, in order
    conv_completed,       \* how many entries had the chart and both writes complete
    conv_last,            \* what happened in the last iteration
    \* ---- one run of a script, statement by statement ----
    run_script,           \* the script that runs
    run_pc,               \* index of the next step of the script
    run_status,           \* "running", "completed", "uncaught" (traceback) or "exit1"
    outputs,              \* the files written so far: [kind, name]
    visualizations,       \* the figures save_figure has returned, by name
    run_failures,         \* how many calls have raised in this run
    caught,               \* the calls whose exception an except clause caught
    last_fail,            \* the last call that raised
    \* ---- chart data drawn from numpy's global generator ----
    viz_func,             \* the visualization function that is run repeatedly
    rng,                  \* the state of np.random's global generator
    fig_runs,             \* per run: the data arrays of the figure, the state before
    \* ---- the brand colours the scripts define at import ----
    palette,              \* script -> its brand red and gray, once imported
    \* ---- the plotly figures the chart functions return ----
    figures,              \* chart function -> the figure it returned, once called
    \* ---- create_pdf_simple: one CalloutBox flowable ----
    content,              \* CalloutBox.content, as the lengths of its words
    box_pc,               \* "new", "constructed" after __init__, "drawn" after draw
    height,               \* CalloutBox.height, in hundredths of an inch
    lines,                \* draw's lines: the length of every wrapped line
    drawn                 \* the lines draw passed to drawCentredString, by index

canvasVars == <<canvasmaker, _pageNumber, _code, _saved_page_states, pdf_pages, canvas_saved>>
storyVars == <<story, viz_last>>
convVars == <<conv_pc, conv_i, successful, failed, conv_attempts, conv_completed, conv_last>>
runVars == <<run_script, run_pc, run_status, outputs, visualizations, run_failures,
             caught, last_fail>>
rngVars == <<viz_func, rng, fig_runs>>
palVars == <<palette>>
figVars == <<figures>>
boxVars == <<content, box_pc, height, lines, drawn>>

vars == <<canvasVars, storyVars, convVars, runVars, rngVars, palVars, figVars, boxVars>>

\* what the actions of one family leave unchanged
notCanvas == <<storyVars, convVars, runVars, rngVars, palVars, figVars, boxVars>>
notStory == <<canvasVars, convVars, runVars, rngVars, palVars, figVars, boxVars>>
notConv == <<canvasVars, storyVars, runVars, rngVars, palVars, figVars, boxVars>>
notRun == <<canvasVars, storyVars, convVars, rngVars, palVars, figVars, boxVars>>
notRng == <<canvasVars, storyVars, convVars, runVars, palVars, figVars, boxVars>>
notPal == <<canvasVars, storyVars, convVars, runVars, rngVars, figVars, boxVars>>
notFig == <<canvasVars, storyVars, convVars, runVars, rngVars, palVars, boxVars>>
notBox == <<canvasVars, storyVars, convVars, runVars, rngVars, palVars, figVars>>

(***************************************************************************)
(* Bounds of the model.                                                    *)
(***************************************************************************)
\* most words of a CalloutBox content
MaxWords == 8

\* most pages a document build emits
MaxPages == 3
\* most flowables drawn on one page
MaxItems == 1
\* most add_visualization calls on one story
MaxVizCalls == 2
\* most calls that raise in one run of a script
MaxFailures == 1
\* number of states of the modelled random generator
RngModulus == 16
\* most runs of the visualization function that are compared
MaxRuns == 2

(***************************************************************************)
(* The page-numbering canvas.                                              *)
(*                                                                         *)
(* reportlab's Canvas starts with _pageNumber = 1; _startPage increments   *)
(* it and empties the page's accumulated code; Canvas.showPage hands the   *)
(* accumulated code to the document as one page and calls _startPage.      *)
(* Every script overrides showPage to snapshot the canvas's __dict__       *)
(* instead, and replays the snapshots in save().                           *)
(***************************************************************************)
F500 == "create_fortune500_pdf"
SIMPLE == "create_pdf_simple"
REALCAP == "create_real_cap_pdf"
PROF == "create_professional_pdf"

CanvasScripts == {F500, SIMPLE, REALCAP, PROF}

\* one drawing operator on a page
Op(o, t) == [op |-> o, text |-> t]

\* the flowables the document template draws on a page
Flowables == {Op("flowable", "Paragraph"), Op("flowable", "Image")}

\* canvas.Canvas.__init__: the page counter starts at 1
Canvas_init_pageNumber == 1

\* a constructor that leaves the base canvas's counter alone
Real_init_pageNumber_NoReset == Canvas_init_pageNumber

\* create_real_cap_pdf: self._pageNumber = 0 after the base constructor
Real_init_pageNumber == 0

\* NumberedCanvas.__init__ of each script: the value of _pageNumber it leaves
NumberedCanvas_init(script) ==
    IF script = REALCAP THEN Real_init_pageNumber ELSE Canvas_init_pageNumber

\* f"Page {a} of {b}"
PageOf(a, b) == "Page " \o ToString(a) \o " of " \o ToString(b)

\* a draw_page_number that labels a page with its physical position and the
\* physical page count
F500_draw_page_number_Physical(page_num, total_pages) ==
    IF page_num = 1
    THEN <<>>
    ELSE << Op("line", "header"),
            Op("drawRightString", PageOf(page_num, total_pages)),
            Op("drawString", "CAP EVALUATION REPORT") >>

\* create_fortune500_pdf.NumberedCanvas.draw_page_number(page_num, total_pages):
\* the operators it draws
F500_draw_page_number(page_num, total_pages) ==
    IF page_num = 1
    THEN <<>>
    ELSE << Op("line", "header"),
            Op("drawRightString", PageOf(page_num - 1, total_pages - 1)),
            Op("drawString", "CAP EVALUATION REPORT") >>

\* a draw_page_number that skips only the header on the first page
Simple_draw_page_number_FooterOnFirst(pageNumber, page_count) ==
    (IF pageNumber > 1
     THEN << Op("drawString", "Community Adaptation Program Evaluation Report"),
             Op("drawRightString", "September 2025"),
             Op("line", "header") >>
     ELSE <<>>)
    \o
    << Op("drawCentredString", PageOf(pageNumber, page_count)) >>

\* create_pdf_simple.NumberedCanvas.draw_page_number(page_count), reading
\* self._pageNumber
Simple_draw_page_number(pageNumber, page_count) ==
    (IF pageNumber > 1
     THEN << Op("drawString", "Community Adaptation Program Evaluation Report"),
             Op("drawRightString", "September 2025"),
             Op("line", "header") >>
     ELSE <<>>)
    \o
    (IF pageNumber > 1
     THEN << Op("drawCentredString", PageOf(pageNumber, page_count)) >>
     ELSE <<>>)

\* create_real_cap_pdf.NumberedCanvas.draw_page_number(), reading self._pageNumber
Real_draw_page_number(pageNumber) ==
    IF pageNumber > 1
    THEN << Op("drawRightString", ToString(pageNumber)) >>
    ELSE <<>>

\* create_professional_pdf.NumberedCanvas.draw_page_number(page_count)
Prof_draw_page_number(pageNumber, page_count) ==
    << Op("drawString", "Community Adaptation Program Evaluation Report"),
       Op("drawRightString", "datetime.now().strftime('%B %Y')"),
       Op("drawCentredString", PageOf(pageNumber, page_count)),
       Op("line", "header") >>

\* the loop body of save(): __dict__.update(state), then what the script draws
\* on the replayed page k of num_pages (the page's own code comes first)
F500_replay(k, num_pages) ==
    _saved_page_states[k]._code \o F500_draw_page_number((k - 1) + 1, num_pages)

Simple_replay(k, num_pages) ==
    _saved_page_states[k]._code
        \o Simple_draw_page_number(_saved_page_states[k]._pageNumber, num_pages)

Real_replay(k, num_pages) ==
    _saved_page_states[k]._code
        \o Real_draw_page_number(_saved_page_states[k]._pageNumber + 1)

Prof_replay(k, num_pages) ==
    _saved_page_states[k]._code
        \o Prof_draw_page_number(_saved_page_states[k]._pageNumber, num_pages)

Replay(script, k, num_pages) ==
    CASE script = F500 -> F500_replay(k, num_pages)
      [] script = SIMPLE -> Simple_replay(k, num_pages)
      [] script = REALCAP -> Real_replay(k, num_pages)
      [] script = PROF -> Prof_replay(k, num_pages)

\* _pageNumber after the last Canvas.showPage of save(): the replayed value
\* (plus the script's own increment) and _startPage's increment
PageNumberAfterSave(script, num_pages) ==
    _saved_page_states[num_pages]._pageNumber
        + (IF script = REALCAP THEN 1 ELSE 0) + 1

\* a flowable is drawn on the current page
DocDraw ==
    /\ ~canvas_saved
    /\ Len(_saved_page_states) < MaxPages
    /\ Len(_code) < MaxItems
    /\ \E f \in Flowables : _code' = Append(_code, f)
    /\ UNCHANGED <<canvasmaker, _pageNumber, _saved_page_states, pdf_pages, canvas_saved>>
    /\ UNCHANGED notCanvas

\* NumberedCanvas.showPage: snapshot __dict__, then Canvas._startPage
showPage ==
    /\ ~canvas_saved
    /\ Len(_saved_page_states) < MaxPages
    /\ _saved_page_states' =
           Append(_saved_page_states, [_pageNumber |-> _pageNumber, _code |-> _code])
    /\ _pageNumber' = _pageNumber + 1
    /\ _code' = <<>>
    /\ UNCHANGED <<canvasmaker, pdf_pages, canvas_saved>>
    /\ UNCHANGED notCanvas

\* NumberedCanvas.save: replay every snapshot through draw_page_number and
\* Canvas.showPage, then Canvas.save.  The document template calls it after the
\* last page's showPage, so no code is pending.
save ==
    /\ ~canvas_saved
    /\ Len(_saved_page_states) >= 1
    /\ _code = <<>>
    /\ LET num_pages == Len(_saved_page_states) IN
         /\ pdf_pages' = [k \in 1..num_pages |-> Replay(canvasmaker, k, num_pages)]
         /\ _pageNumber' = PageNumberAfterSave(canvasmaker, num_pages)
    /\ _code' = <<>>
    /\ canvas_saved' = TRUE
    /\ UNCHANGED <<canvasmaker, _saved_page_states>>
    /\ UNCHANGED notCanvas

InitCanvasVars ==
    /\ canvasmaker \in CanvasScripts
    /\ _pageNumber = NumberedCanvas_init(canvasmaker)
    /\ _code = <<>>
    /\ _saved_page_states = <<>>
    /\ pdf_pages = <<>>
    /\ canvas_saved = FALSE

IdleCanvas ==
    /\ canvasmaker = "none"
    /\ _pageNumber = 0
    /\ _code = <<>>
    /\ _saved_page_states = <<>>
    /\ pdf_pages = <<>>
    /\ canvas_saved = FALSE


\* what the script drew on replayed page k, after the page's own content
Decoration(k) ==
    SubSeq(pdf_pages[k], Len(_saved_page_states[k]._code) + 1, Len(pdf_pages[k]))

\* page k still starts with its own content
KeepsContent(k) ==
    SubSeq(pdf_pages[k], 1, Len(_saved_page_states[k]._code)) = _saved_page_states[k]._code

\* C6: in the Fortune 500 PDF the title page gets no header line, header title
\* or page number, and every page k in 2..N is labelled "Page k-1 of N-1".
C6_F500PageLabels ==
    (canvasmaker = F500 /\ canvas_saved) =>
        LET N == Len(pdf_pages) IN
          /\ N = Len(_saved_page_states)
          /\ pdf_pages[1] = _saved_page_states[1]._code
          /\ \A k \in 2..N :
               /\ KeepsContent(k)
               /\ Decoration(k) = << Op("line", "header"),
                                     Op("drawRightString", PageOf(k - 1, N - 1)),
                                     Op("drawString", "CAP EVALUATION REPORT") >>

C6_Witness ==
    canvasmaker = F500 /\ canvas_saved /\ Len(pdf_pages) >= 3

\* C7: in create_pdf_simple the first page carries neither header nor page
\* number, and every page k >= 2 carries the header and "Page k of N".
C7_SimplePageLabels ==
    (canvasmaker = SIMPLE /\ canvas_saved) =>
        LET N == Len(pdf_pages) IN
          /\ N = Len(_saved_page_states)
          /\ pdf_pages[1] = _saved_page_states[1]._code
          /\ \A k \in 2..N :
               /\ KeepsContent(k)
               /\ Decoration(k) =
                    << Op("drawString", "Community Adaptation Program Evaluation Report"),
                       Op("drawRightString", "September 2025"),
                       Op("line", "header"),
                       Op("drawCentredString", PageOf(k, N)) >>

C7_Witness ==
    canvasmaker = SIMPLE /\ canvas_saved /\ Len(pdf_pages) >= 3

\* C8: in create_real_cap_pdf the first page shows no page number and every
\* page k >= 2 shows exactly the number k.
C8_RealPageNumbers ==
    (canvasmaker = REALCAP /\ canvas_saved) =>
        LET N == Len(pdf_pages) IN
          /\ N = Len(_saved_page_states)
          /\ pdf_pages[1] = _saved_page_states[1]._code
          /\ \A k \in 2..N :
               /\ KeepsContent(k)
               /\ Decoration(k) = << Op("drawRightString", ToString(k)) >>

C8_Witness ==
    canvasmaker = REALCAP /\ canvas_saved /\ Len(pdf_pages) >= 3

(***************************************************************************)
(* create_fortune500_pdf.add_visualization.                                *)
(***************************************************************************)
Paragraph(text, style) == [kind |-> "Paragraph", text |-> text, style |-> style, h |-> 0]
Image(path) == [kind |-> "Image", text |-> path, style |-> "CENTER", h |-> 0]
Spacer(pts) == [kind |-> "Spacer", text |-> "", style |-> "", h |-> pts]

\* two of the calls create_pdf_report makes: path, title and description
VizCalls ==
    { [viz_path |-> "graphics/executive_dashboard.png",
       title |-> "CAP Performance Dashboard",
       description |-> "Comprehensive overview of CAP's impact"],
      [viz_path |-> "graphics/ia_uptake.png",
       title |-> "Immediate Assistance Uptake Rates",
       description |-> "CAP jurisdictions consistently demonstrate higher IA completion rates"] }

\* Python truthiness of a str: the empty string is false
Truthy(str) == str # ""

\* add_visualization without the try/except around Image(...): the load
\* failure propagates out of the function
add_visualization_NoTry(s, viz_path, title, description, exists, loads) ==
    LET s1 == Append(s, Paragraph(title, "SubsectionHeader")) IN
    IF exists /\ ~loads
    THEN [story |-> s1, raised |-> TRUE]
    ELSE
      LET s2 == IF exists
                THEN Append(s1, Image(viz_path))
                ELSE Append(s1, Paragraph("[Visualization: " \o title
                                              \o " - File not found: " \o viz_path \o "]",
                                          "BodyText"))
          s3 == IF Truthy(description)
                THEN Append(Append(s2, Spacer(6)), Paragraph(description, "BodyText"))
                ELSE s2
      IN [story |-> Append(s3, Spacer(12)), raised |-> FALSE]

\* add_visualization(story, styles, viz_path, title, description): the story it
\* leaves and whether an exception left the function.  exists is
\* os.path.exists(viz_path); loads is whether Image(viz_path, ...) returns
add_visualization(s, viz_path, title, description, exists, loads) ==
    LET s1 == Append(s, Paragraph(title, "SubsectionHeader"))
        s2 == IF exists
              THEN IF loads
                   THEN Append(s1, Image(viz_path))
                   ELSE Append(s1, Paragraph("[Visualization: " \o title \o "]", "BodyText"))
              ELSE Append(s1, Paragraph("[Visualization: " \o title
                                            \o " - File not found: " \o viz_path \o "]",
                                        "BodyText"))
        s3 == IF Truthy(description)
              THEN Append(Append(s2, Spacer(6)), Paragraph(description, "BodyText"))
              ELSE s2
    IN [story |-> Append(s3, Spacer(12)), raised |-> FALSE]

NoVizCall ==
    [called |-> FALSE, viz_path |-> "", title |-> "", description |-> "",
     exists |-> FALSE, loads |-> FALSE, before |-> 0, raised |-> FALSE, calls |-> 0]

\* one call of add_visualization on the story, with or without a description
AddVisualization ==
    /\ viz_last.calls < MaxVizCalls
    /\ ~viz_last.raised
    /\ UNCHANGED notStory
    /\ \E c \in VizCalls, withDescription \in BOOLEAN,
          exists \in BOOLEAN, loads \in BOOLEAN :
          /\ (~exists => ~loads)
          /\ LET description == IF withDescription THEN c.description ELSE ""
                 r == add_visualization(story, c.viz_path, c.title, description, exists, loads)
             IN /\ story' = r.story
                /\ viz_last' = [called |-> TRUE, viz_path |-> c.viz_path, title |-> c.title,
                                description |-> description, exists |-> exists,
                                loads |-> loads, before |-> Len(story),
                                raised |-> r.raised, calls |-> viz_last.calls + 1]

InitStoryVars == story = <<>> /\ viz_last = NoVizCall

IdleStory == story = <<>> /\ viz_last = NoVizCall

\* what the last call appended
Appended == SubSeq(story, viz_last.before + 1, Len(story))

\* C5: add_visualization never raises because of the image file; it appends the
\* title, then exactly one of the image, the load-failure placeholder or the
\* file-not-found placeholder, then a small spacer and the description iff the
\* description is non-empty, then the closing spacer: 5 flowables with a
\* description and 3 without.
C5_AddVisualizationShape ==
    viz_last.called =>
      LET a == Appended
          n == Len(a)
          withDesc == viz_last.description # ""
      IN
        /\ ~viz_last.raised
        /\ SubSeq(story, 1, viz_last.before) \in Seq([kind : {"Paragraph", "Image", "Spacer"},
                                                       text : STRING, style : STRING, h : Nat])
        /\ n = (IF withDesc THEN 5 ELSE 3)
        /\ a[1] = Paragraph(viz_last.title, "SubsectionHeader")
        /\ a[2] = (CASE viz_last.exists /\ viz_last.loads -> Image(viz_last.viz_path)
                     [] viz_last.exists /\ ~viz_last.loads ->
                          Paragraph("[Visualization: " \o viz_last.title \o "]", "BodyText")
                     [] ~viz_last.exists ->
                          Paragraph("[Visualization: " \o viz_last.title
                                        \o " - File not found: " \o viz_last.viz_path \o "]",
                                    "BodyText"))
        /\ withDesc => (a[3] = Spacer(6) /\ a[4] = Paragraph(viz_last.description, "BodyText"))
        /\ a[n] = Spacer(12)

\* the load of an existing file failed inside a call that had a description
C5_Witness ==
    /\ viz_last.called /\ viz_last.exists /\ ~viz_last.loads
    /\ viz_last.description # "" /\ viz_last.calls = 2 /\ Len(Appended) = 5

(***************************************************************************)
(* convert_to_images: every entry of viz_functions is drawn and written    *)
(* as PNG and as JPG inside one try block per entry.                       *)
(***************************************************************************)
\* the names of viz_functions, in list order
viz_functions ==
    << "roi_by_disaster", "roi_by_partner", "cost_containment_donut",
       "ia_uptake_comparison", "speed_advantage", "volunteer_trends",
       "homes_safer_impact", "stakeholder_sentiment", "meal_cost_comparison",
       "response_timeline", "geographic_impact", "quarterly_trends",
       "partner_distribution", "failures_prevented", "youth_preparedness",
       "francine_breakdown", "asset_utilization", "coalition_growth",
       "disaster_efficiency", "kpi_dashboard", "risk_timeline",
       "cultural_metrics", "investment_return", "executive_scorecard" >>

\* a loop body that counts the entry before the JPG is written
convert_body_CountBeforeJpg(func_ok, png_ok, jpg_ok) ==
    IF ~func_ok THEN [successful |-> 0, failed |-> 1, reached |-> "func"]
    ELSE IF ~png_ok THEN [successful |-> 0, failed |-> 1, reached |-> "png"]
    ELSE IF ~jpg_ok THEN [successful |-> 1, failed |-> 1, reached |-> "jpg"]
    ELSE [successful |-> 1, failed |-> 0, reached |-> "counted"]

\* the body of the for loop: func(), the PNG write, the JPG write and
\* successful += 1 inside try; failed += 1 in the except clause.  The result is
\* the increments of the two counters and the last statement reached
convert_body(func_ok, png_ok, jpg_ok) ==
    IF ~func_ok THEN [successful |-> 0, failed |-> 1, reached |-> "func"]
    ELSE IF ~png_ok THEN [successful |-> 0, failed |-> 1, reached |-> "png"]
    ELSE IF ~jpg_ok THEN [successful |-> 0, failed |-> 1, reached |-> "jpg"]
    ELSE [successful |-> 1, failed |-> 0, reached |-> "counted"]

\* whether the for loop goes on to the next entry after an iteration: the
\* except clause is inside the loop, so it always does
convert_continues(r) == TRUE

\* one iteration of the for loop
ConvertOne ==
    /\ conv_pc = "loop"
    /\ conv_i < Len(viz_functions)
    /\ \E func_ok \in BOOLEAN, png_ok \in BOOLEAN, jpg_ok \in BOOLEAN :
          /\ (~func_ok => ~png_ok)
          /\ (~png_ok => ~jpg_ok)
          /\ LET r == convert_body(func_ok, png_ok, jpg_ok) IN
               /\ successful' = successful + r.successful
               /\ failed' = failed + r.failed
               /\ conv_last' = [name |-> viz_functions[conv_i + 1], func_ok |-> func_ok,
                                png_ok |-> png_ok, jpg_ok |-> jpg_ok, reached |-> r.reached]
               /\ conv_pc' = IF convert_continues(r) THEN "loop" ELSE "done"
               /\ conv_completed' =
                     conv_completed + (IF func_ok /\ png_ok /\ jpg_ok THEN 1 ELSE 0)
    /\ conv_attempts' = Append(conv_attempts, viz_functions[conv_i + 1])
    /\ conv_i' = conv_i + 1
    /\ UNCHANGED notConv

\* the list is exhausted: the summary is printed
ConvertFinish ==
    /\ conv_pc = "loop"
    /\ conv_i = Len(viz_functions)
    /\ conv_pc' = "done"
    /\ UNCHANGED <<conv_i, successful, failed, conv_attempts, conv_completed, conv_last>>
    /\ UNCHANGED notConv

NoIteration ==
    [name |-> "", func_ok |-> FALSE, png_ok |-> FALSE, jpg_ok |-> FALSE, reached |-> ""]

InitConvVars ==
    /\ conv_pc = "loop"
    /\ conv_i = 0
    /\ successful = 0
    /\ failed = 0
    /\ conv_attempts = <<>>
    /\ conv_completed = 0
    /\ conv_last = NoIteration

IdleConv ==
    /\ conv_pc = "idle"
    /\ conv_i = 0
    /\ successful = 0
    /\ failed = 0
    /\ conv_attempts = <<>>
    /\ conv_completed = 0
    /\ conv_last = NoIteration

\* C3: convert_to_images attempts each of the 24 listed visualizations exactly
\* once, in list order, and continues after any failure; when the loop ends
\* successful + failed = 24, and an entry is counted as successful exactly
\* when its chart function returned and both image writes completed.
C3_ConvertCounts ==
    /\ Len(viz_functions) = 24
    /\ conv_attempts = SubSeq(viz_functions, 1, Len(conv_attempts))
    /\ successful = conv_completed
    /\ failed = Len(conv_attempts) - conv_completed
    /\ (conv_last.name # "" =>
          ((conv_last.reached = "counted")
              <=> (conv_last.func_ok /\ conv_last.png_ok /\ conv_last.jpg_ok)))
    /\ (conv_pc = "done" =>
          /\ conv_attempts = viz_functions
          /\ successful + failed = 24)

\* the loop ended after a chart function, a PNG write and a JPG write failed
C3_Witness ==
    /\ conv_pc = "done" /\ failed >= 3 /\ successful >= 1
    /\ ~conv_last.jpg_ok /\ conv_last.png_ok

(***************************************************************************)
(* A run of one script.  A script is its sequence of calls that can raise  *)
(* (chart functions, HTML and image writes, file reads, image loads, the   *)
(* PDF build) and its try statements; a call either returns or raises, and *)
(* an exception goes to the innermost enclosing try whose except clause    *)
(* matches it, or ends the script with a traceback.                        *)
(***************************************************************************)
CAPG == "create_cap_graphics"
F5G == "fortune500_graphics"
C20 == "create_20_visualizations"
COOL == "create_cool_visualizations"
FIXED == "create_cool_visualizations_fixed"
CONV == "convert_to_images"

Scripts == {CAPG, F5G, C20, COOL, FIXED, CONV, PROF, SIMPLE, F500, REALCAP}

\* a call: what is called, on which figure or file, the kind of file it writes
\* ("" for none) and the exception classes it can raise
Step(call, name, kind, raises) ==
    [call |-> call, name |-> name, kind |-> kind, raises |-> raises]

\* a try statement: the steps of its block, the class its except clause names
\* ("BaseException" for a bare except) and whether the handler calls sys.exit(1)
Try(from, to, catches, exits) ==
    [from |-> from, to |-> to, catches |-> catches, exits |-> exits]

\* an ordinary failure: some subclass of Exception
AnyError == {"Exception"}

\* whether an except clause naming class c handles an exception of class e
Catches(c, e) == c \in {"BaseException", "Exception"} \/ c = e

\* the steps of a script that runs the calls of ops once per name, in order
PerFigure(names, ops) ==
    [j \in 1..(Len(names) * Len(ops)) |->
        LET op == ops[((j - 1) % Len(ops)) + 1]
        IN Step(op.call, names[((j - 1) \div Len(ops)) + 1], op.kind, op.raises)]

\* the try statements of such a script when the call at position at of every
\* figure is alone in a try block with a bare except
PerFigureTries(names, n, at) ==
    [i \in 1..Len(names) |->
        Try((i - 1) * n + at, (i - 1) * n + at, "BaseException", FALSE)]

CallOp(call, kind, raises) == [call |-> call, kind |-> kind, raises |-> raises]

\* create_cap_graphics: fig1..fig7
CapGraphics_names ==
    << "roi_comparison", "speed_comparison", "volunteer_trend", "ia_uptake",
       "homes_safer", "cost_breakdown", "coalition_growth" >>

\* create_cap_graphics __main__: seven charts, seven write_html, seven write_image
CapGraphics_steps ==
    [j \in 1..21 |->
        IF j <= 7 THEN Step("chart", CapGraphics_names[j], "", AnyError)
        ELSE IF j <= 14 THEN Step("write_html", CapGraphics_names[j - 7], "html", AnyError)
        ELSE Step("write_image", CapGraphics_names[j - 14], "image", AnyError)]

\* create_cap_graphics __main__: one try with a bare except around the image writes
CapGraphics_tries == << Try(15, 21, "BaseException", FALSE) >>

\* fortune500_graphics: the keys of charts
F5G_names ==
    << "roi_disaster_type", "roi_partner_type", "cost_containment", "ia_uptake",
       "speed_advantage", "volunteer_trends", "homes_safer", "stakeholder_sentiment" >>

\* fortune500_graphics.export_all_visualizations and create_executive_dashboard
F5G_steps ==
    [j \in 1..27 |->
        IF j <= 8 THEN Step("chart", F5G_names[j], "", AnyError)
        ELSE IF j <= 16 THEN Step("write_html", F5G_names[j - 8], "html", AnyError)
        ELSE IF j <= 24 THEN Step("write_image", F5G_names[j - 16], "image", AnyError)
        ELSE IF j = 25 THEN Step("chart", "executive_dashboard", "", AnyError)
        ELSE IF j = 26 THEN Step("write_html", "executive_dashboard", "html", AnyError)
        ELSE Step("write_image", "executive_dashboard", "image", AnyError)]

\* fortune500_graphics: the try around the PNG loop, the try around the
\* dashboard's PNG, and main()'s try around everything
F5G_tries ==
    << Try(17, 24, "Exception", FALSE),
       Try(27, 27, "BaseException", FALSE),
       Try(1, 27, "Exception", FALSE) >>

\* the names of create_20_visualizations had create_roi_by_partner saved its
\* figure under the name create_roi_by_disaster uses
C20_names_Duplicate ==
    << "roi_by_disaster", "roi_by_disaster", "cost_containment_donut",
       "ia_uptake_comparison", "speed_advantage", "volunteer_trends",
       "homes_safer_impact", "stakeholder_sentiment", "meal_cost_comparison",
       "response_timeline", "geographic_impact", "quarterly_trends",
       "partner_distribution", "failures_prevented", "youth_preparedness",
       "francine_breakdown", "asset_utilization", "coalition_growth",
       "disaster_efficiency", "kpi_dashboard", "risk_timeline",
       "cultural_metrics", "investment_return", "executive_scorecard" >>

\* create_20_visualizations: the names the 24 functions of
\* create_all_visualizations pass to save_figure, in call order
C20_names ==
    << "roi_by_disaster", "roi_partner_waterfall", "cost_containment_donut",
       "ia_uptake_comparison", "speed_advantage", "volunteer_trends",
       "homes_safer_impact", "stakeholder_sentiment", "meal_cost_comparison",
       "response_timeline", "geographic_impact", "quarterly_trends",
       "partner_distribution", "failures_prevented", "youth_preparedness",
       "francine_breakdown", "asset_utilization", "coalition_growth",
       "disaster_efficiency", "kpi_dashboard", "risk_timeline",
       "cultural_metrics", "investment_return", "executive_scorecard" >>

\* create_20_visualizations.save_figure: write_html, then return fig
C20_save_figure ==
    << CallOp("write_html", "html", AnyError), CallOp("return", "", {}) >>

\* create_20_visualizations.create_all_visualizations
C20_steps == PerFigure(C20_names, <<CallOp("chart", "", AnyError)>> \o C20_save_figure)

C20_tries == <<>>

\* create_cool_visualizations: the names passed to save_figure, in call order
Cool_names ==
    << "3d_performance_matrix", "animated_bubble_evolution", "sunburst_cost_hierarchy",
       "scatter_matrix_analysis", "advanced_heatmap", "parallel_coordinates",
       "violin_distribution", "sankey_resource_flow", "scatter_marginal_analysis",
       "treemap_impact", "funnel_pipeline", "network_graph", "growth_race",
       "polar_360_view", "density_clusters", "surface_landscape",
       "ridgeline_evolution", "spider_comparison", "box_jitter_stats",
       "executive_dashboard_complete" >>

\* create_cool_visualizations_fixed: the names passed to save_figure, in call order
Fixed_names ==
    << "3d_scatter_performance", "animated_scatter_evolution", "sunburst_hierarchy",
       "correlation_matrix", "bubble_map_impact", "parallel_coordinates",
       "violin_scatter_distribution", "sankey_flow", "scatter_trend_roi",
       "heatmap_matrix", "treemap_impact", "funnel_pipeline", "polar_scatter_360",
       "dual_axis_analysis", "contour_density", "radar_comparison",
       "network_partners", "box_plots_stats", "gantt_timeline",
       "executive_dashboard" >>

\* save_figure of the two cool scripts: write_html, write_image in a try with a
\* bare except, then return fig
Cool_save_figure ==
    << CallOp("write_html", "html", AnyError), CallOp("write_image", "image", AnyError),
       CallOp("return", "", {}) >>

Cool_steps == PerFigure(Cool_names, <<CallOp("chart", "", AnyError)>> \o Cool_save_figure)

Cool_tries == PerFigureTries(Cool_names, 4, 3)

Fixed_steps == PerFigure(Fixed_names, <<CallOp("chart", "", AnyError)>> \o Cool_save_figure)

Fixed_tries == PerFigureTries(Fixed_names, 4, 3)

\* convert_to_images: per entry func() (the chart and create_20's save_figure),
\* the PNG write and the JPG write
Conv_steps ==
    [j \in 1..(Len(viz_functions) * 5) |->
        LET i == ((j - 1) \div 5) + 1
            k == ((j - 1) % 5) + 1
        IN CASE k = 1 -> Step("chart", C20_names[i], "", AnyError)
             [] k = 2 -> Step("write_html", C20_names[i], "html", AnyError)
             [] k = 3 -> Step("return", C20_names[i], "", {})
             [] k = 4 -> Step("write_image", viz_functions[i] \o ".png", "image", AnyError)
             [] k = 5 -> Step("write_image", viz_functions[i] \o ".jpg", "image", AnyError)]

\* convert_to_images: the try inside the for loop covers the whole body
Conv_tries ==
    [i \in 1..Len(viz_functions) |-> Try((i - 1) * 5 + 1, i * 5, "Exception", FALSE)]

\* create_professional_pdf.create_professional_pdf: the report text is read, three
\* charts are drawn, written with pio.write_image and loaded, the PDF is built
Prof_steps ==
    << Step("read", "Updated_CAP_Report_September_30_2025_COMPLETE.txt", "", AnyError),
       Step("chart", "roi_comparison", "", AnyError),
       Step("write_image", "roi_comparison", "image", AnyError),
       Step("Image", "roi_comparison", "", AnyError),
       Step("chart", "speed_comparison", "", AnyError),
       Step("write_image", "speed_comparison", "image", AnyError),
       Step("Image", "speed_comparison", "", AnyError),
       Step("chart", "cost_breakdown", "", AnyError),
       Step("write_image", "cost_breakdown", "image", AnyError),
       Step("Image", "cost_breakdown", "", AnyError),
       Step("build", "CAP_Evaluation_Report_Professional", "pdf", AnyError) >>

\* create_professional_pdf has no try statement
Prof_tries == <<>>

\* create_pdf_simple.create_professional_pdf
Simple_steps ==
    << Step("read", "Updated_CAP_Report_September_30_2025_COMPLETE.txt", "", AnyError),
       Step("build", "CAP_Evaluation_Report_Professional", "pdf", AnyError) >>

\* create_pdf_simple __main__ without its try
Simple_tries_None == <<>>

\* create_pdf_simple __main__: try around create_professional_pdf(), except Exception
Simple_tries == << Try(1, 2, "Exception", FALSE) >>

\* create_fortune500_pdf: the images add_visualization is called for
F500_images ==
    << "executive_dashboard", "ia_uptake", "speed_advantage", "cost_containment",
       "roi_partner_type", "roi_disaster_type", "volunteer_trends", "homes_safer",
       "stakeholder_sentiment" >>

\* create_fortune500_pdf.create_pdf_report and __main__: nine image loads, the
\* build, os.path.getsize and subprocess.run(['open', pdf_path], check=True)
F500_steps ==
    [j \in 1..12 |->
        IF j <= 9 THEN Step("Image", F500_images[j], "", AnyError)
        ELSE IF j = 10 THEN Step("build", "CAP_Fortune500_Report", "pdf", AnyError)
        ELSE IF j = 11 THEN Step("getsize", "CAP_Fortune500_Report", "", AnyError)
        ELSE Step("open", "CAP_Fortune500_Report", "", {"CalledProcessError", "Exception"})]

\* create_fortune500_pdf: the try in add_visualization around each load, the try
\* around subprocess.run (except CalledProcessError) and __main__'s try around
\* everything, whose handler calls sys.exit(1)
F500_tries ==
    [i \in 1..9 |-> Try(i, i, "Exception", FALSE)]
        \o << Try(12, 12, "CalledProcessError", FALSE), Try(1, 12, "Exception", TRUE) >>

\* create_real_cap_pdf.create_cap_report_pdf
Real_steps ==
    << Step("read", "FINAL_CAP_Report_With_Updates.txt", "", AnyError),
       Step("build", "CAP_Final_Report_September_2025", "pdf", AnyError) >>

\* create_real_cap_pdf has no try statement
Real_tries == <<>>

Steps(script) ==
    CASE script = CAPG -> CapGraphics_steps
      [] script = F5G -> F5G_steps
      [] script = C20 -> C20_steps
      [] script = COOL -> Cool_steps
      [] script = FIXED -> Fixed_steps
      [] script = CONV -> Conv_steps
      [] script = PROF -> Prof_steps
      [] script = SIMPLE -> Simple_steps
      [] script = F500 -> F500_steps
      [] script = REALCAP -> Real_steps

Tries(script) ==
    CASE script = CAPG -> CapGraphics_tries
      [] script = F5G -> F5G_tries
      [] script = C20 -> C20_tries
      [] script = COOL -> Cool_tries
      [] script = FIXED -> Fixed_tries
      [] script = CONV -> Conv_tries
      [] script = PROF -> Prof_tries
      [] script = SIMPLE -> Simple_tries
      [] script = F500 -> F500_tries
      [] script = REALCAP -> Real_tries

\* the try statements around step pc whose except clause handles class e
Handlers(script, pc, e) ==
    { t \in { Tries(script)[i] : i \in DOMAIN Tries(script) } :
        t.from <= pc /\ pc <= t.to /\ Catches(t.catches, e) }

\* the innermost of them
Innermost(hs) == CHOOSE t \in hs : \A u \in hs : u.from <= t.from /\ t.to <= u.to

\* the next call returns
StepReturns ==
    /\ run_status = "running"
    /\ run_pc <= Len(Steps(run_script))
    /\ LET st == Steps(run_script)[run_pc] IN
         /\ outputs' = IF st.kind = "" THEN outputs
                        ELSE outputs \cup {[kind |-> st.kind, name |-> st.name]}
         /\ visualizations' = IF st.call = "return"
                               THEN Append(visualizations, st.name)
                               ELSE visualizations
    /\ run_pc' = run_pc + 1
    /\ UNCHANGED <<run_script, run_status, run_failures, caught, last_fail>>
    /\ UNCHANGED notRun

\* the next call raises
StepRaises ==
    /\ run_status = "running"
    /\ run_pc <= Len(Steps(run_script))
    /\ run_failures < MaxFailures
    /\ LET st == Steps(run_script)[run_pc] IN
         \E e \in st.raises :
           LET hs == Handlers(run_script, run_pc, e) IN
             /\ last_fail' = [call |-> st.call, name |-> st.name, class |-> e, pc |-> run_pc]
             /\ IF hs = {}
                THEN /\ run_status' = "uncaught"
                     /\ UNCHANGED <<run_pc, caught>>
                ELSE /\ caught' = caught \cup {st.call}
                     /\ IF Innermost(hs).exits
                        THEN run_status' = "exit1" /\ UNCHANGED run_pc
                        ELSE run_pc' = Innermost(hs).to + 1 /\ UNCHANGED run_status
    /\ run_failures' = run_failures + 1
    /\ UNCHANGED <<run_script, outputs, visualizations>>
    /\ UNCHANGED notRun

\* the last statement has run: the script ends normally
RunFinish ==
    /\ run_status = "running"
    /\ run_pc = Len(Steps(run_script)) + 1
    /\ run_status' = "completed"
    /\ UNCHANGED <<run_script, run_pc, outputs, visualizations, run_failures, caught,
                   last_fail>>
    /\ UNCHANGED notRun

NoFailure == [call |-> "", name |-> "", class |-> "", pc |-> 0]

InitRunVars ==
    /\ run_script \in Scripts
    /\ run_pc = 1
    /\ run_status = "running"
    /\ outputs = {}
    /\ visualizations = <<>>
    /\ run_failures = 0
    /\ caught = {}
    /\ last_fail = NoFailure

IdleRun ==
    /\ run_script = "none"
    /\ run_pc = 0
    /\ run_status = "idle"
    /\ outputs = {}
    /\ visualizations = <<>>
    /\ run_failures = 0
    /\ caught = {}
    /\ last_fail = NoFailure

\* the HTML files and the PDF a script writes when nothing fails
NonImageOutputs(script) ==
    { [kind |-> Steps(script)[j].kind, name |-> Steps(script)[j].name] :
        j \in { i \in DOMAIN Steps(script) : Steps(script)[i].kind \in {"html", "pdf"} } }

\* C1: static image export is optional in every script that performs it:
\* whenever a write_image call raises, the exception is swallowed, the script
\* still completes, and every non-image output of the script is still produced.
C1_ImageExportOptional ==
    (last_fail.call = "write_image") =>
        /\ run_status \in {"running", "completed"}
        /\ (run_status = "completed" => NonImageOutputs(run_script) \subseteq outputs)

PropagatesIn(script, call) ==
    \/ script \in {C20, PROF, REALCAP}
    \/ script \in {CAPG, COOL, FIXED} /\ call \in {"chart", "write_html"}

C4_SaveFigureHtmlAndImage ==
    run_script = C20 =>
        \A i \in 1..Len(visualizations) :
            /\ visualizations[i] = C20_names[i]
            /\ [kind |-> "html", name |-> visualizations[i]] \in outputs
            /\ [kind |-> "image", name |-> visualizations[i]] \in outputs

\* the number of visualization functions each batch script calls, which is
\* the count it prints as len(visualizations)
BatchScripts == {C20, COOL, FIXED}

BatchNames(script) ==
    CASE script = C20 -> C20_names
      [] script = COOL -> Cool_names
      [] script = FIXED -> Fixed_names

\* the HTML files a run has written so far
HtmlFiles == { o \in outputs : o.kind = "html" }

RngStatesAll == 0..(RngModulus - 1)

\* the generator's transition on one draw
RngNext(s) == (s + 7) % RngModulus

\* np.random.seed(n)
RngSeed(n) == n % RngModulus

\* the generator after n draws
RngAdvance(s, n) == (s + 7 * n) % RngModulus

\* np.random.normal(mu, sigma) drawn in state s, in hundredths
Normal(mu, sigma, s) == mu * 100 + ((s % 5) - 2) * sigma * 50

\* np.random.randint(lo, hi) drawn in state s
RandInt(lo, hi, s) == lo + (s % (hi - lo))

\* np.random.normal(mu, sigma, n): the array drawn from state s
NormalArray(mu, sigma, n, s) ==
    [i \in 1..n |-> Normal(mu, sigma, RngAdvance(s, i))]

\* list * k
Times(list, k) == [i \in 1..(Len(list) * k) |-> list[((i - 1) % Len(list)) + 1]]

\* create_20_visualizations.create_roi_by_disaster: literal data, no draw
create_roi_by_disaster(s) ==
    [data |-> [y |-> <<"Hurricane", "Flooding", "Tornado">>, x |-> <<3730, 2553, 977>>],
     rng |-> s]

\* create_cool_visualizations_fixed.create_3d_scatter: literal lists with one
\* np.random.normal draw added to every element
create_3d_scatter(s) ==
    LET roi0 == Times(<<3350, 3210, 3010, 2850, 2630, 2420, 2300, 490, 2250, 2500>>, 3)
        speed0 == Times(<<9500, 9200, 8800, 8500, 8200, 7800, 7500, 6500, 8000, 8300>>, 3)
        quality0 == Times(<<9800, 9500, 9200, 9000, 8800, 8500, 8300, 7500, 8700, 8900>>, 3)
        roi == [i \in 1..30 |-> roi0[i] + Normal(0, 2, RngAdvance(s, i))]
        speed == [i \in 1..30 |-> speed0[i] + Normal(0, 3, RngAdvance(s, 30 + i))]
        quality == [i \in 1..30 |-> quality0[i] + Normal(0, 2, RngAdvance(s, 60 + i))]
    IN [data |-> [x |-> roi, y |-> speed, z |-> quality,
                  size |-> [i \in 1..30 |-> roi[i] \div 3], color |-> roi],
        rng |-> RngAdvance(s, 90)]

\* create_cool_visualizations.create_animated_bubbles: four np.random.randint
\* draws for each of 12 quarters x 5 partner types
create_animated_bubbles(s) ==
    LET row(r) ==
          LET i == (r - 1) \div 5
              at == RngAdvance(s, (r - 1) * 4)
          IN [quarter |-> i + 1, partner |-> ((r - 1) % 5) + 1,
              cost |-> (RandInt(20000, 100000, RngNext(at)) * 100 * (i + 1)) \div 4,
              efficiency |-> RandInt(70, 98, RngAdvance(at, 2)),
              impact |-> RandInt(60, 100, RngAdvance(at, 3)),
              size |-> RandInt(20, 100, RngAdvance(at, 4))]
    IN [data |-> [r \in 1..60 |-> row(r)], rng |-> RngAdvance(s, 240)]

\* a create_correlation_matrix that does not reseed the generator
correlation_seed_Missing(s) == s

\* create_correlation_matrix: np.random.seed(42), the state the draws start from
correlation_seed(s) == RngSeed(42)

\* create_cool_visualizations_fixed.create_correlation_matrix: five arrays of
\* n = 100 draws after np.random.seed(42)
create_correlation_matrix(s) ==
    LET s0 == correlation_seed(s)
        n == 100
        roi == NormalArray(28, 8, n, s0)
        e1 == NormalArray(0, 10, n, RngAdvance(s0, n))
        e2 == NormalArray(0, 8, n, RngAdvance(s0, 2 * n))
        e3 == NormalArray(100, 20, n, RngAdvance(s0, 3 * n))
        e4 == NormalArray(50, 15, n, RngAdvance(s0, 4 * n))
        speed == [i \in 1..n |-> 2 * roi[i] + e1[i]]
        quality == [i \in 1..n |-> (15 * roi[i]) \div 10 + e2[i]]
        cost == [i \in 1..n |-> (-8 * roi[i]) \div 10 + e3[i]]
        volunteers == [i \in 1..n |-> (5 * quality[i]) \div 10 + e4[i]]
    IN [data |-> [roi |-> roi, speed |-> speed, quality |-> quality, cost |-> cost,
                  volunteers |-> volunteers],
        rng |-> RngAdvance(s0, 5 * n)]

VizFunctions ==
    {"create_roi_by_disaster", "create_3d_scatter", "create_animated_bubbles",
     "create_correlation_matrix"}

\* the functions that draw from the generator without seeding it
Unseeded == {"create_3d_scatter", "create_animated_bubbles"}

Call(f, s) ==
    CASE f = "create_roi_by_disaster" -> create_roi_by_disaster(s)
      [] f = "create_3d_scatter" -> create_3d_scatter(s)
      [] f = "create_animated_bubbles" -> create_animated_bubbles(s)
      [] f = "create_correlation_matrix" -> create_correlation_matrix(s)

\* a new interpreter starts: numpy seeds its generator from entropy
StartInterpreter ==
    /\ Len(fig_runs) < MaxRuns
    /\ \E s \in RngStatesAll : rng' = s
    /\ UNCHANGED <<viz_func, fig_runs>>
    /\ UNCHANGED notRng

\* the visualization function is called
CallFunction ==
    /\ Len(fig_runs) < MaxRuns
    /\ LET r == Call(viz_func, rng) IN
         /\ fig_runs' = Append(fig_runs, [data |-> r.data, before |-> rng])
         /\ rng' = r.rng
    /\ UNCHANGED viz_func
    /\ UNCHANGED notRng

InitRngVars ==
    /\ viz_func \in VizFunctions
    /\ rng \in RngStatesAll
    /\ fig_runs = <<>>

IdleRng ==
    /\ viz_func = "none"
    /\ rng = 0
    /\ fig_runs = <<>>

\* C9 as stated: two runs of the same visualization function produce identical
\* data arrays in the figure.
C9_AllDataDeterministic ==
    \A i, j \in 1..Len(fig_runs) : fig_runs[i].data = fig_runs[j].data

\* C9, amended: two runs of the same visualization function produce identical
\* data arrays when the function draws no random numbers or reseeds the
\* generator with np.random.seed(42) before it draws.
C9_SeededOrLiteralDeterministic ==
    viz_func \notin Unseeded =>
        \A i, j \in 1..Len(fig_runs) : fig_runs[i].data = fig_runs[j].data

\* the seeded function ran twice from different generator states
C9_Witness ==
    /\ viz_func = "create_correlation_matrix"
    /\ Len(fig_runs) = 2
    /\ fig_runs[1].before # fig_runs[2].before

(***************************************************************************)
(* The brand colours.  Importing a script runs its module-level            *)
(* assignments, which define its brand red and brand gray.                 *)
(***************************************************************************)
\* the scripts that define a brand red and a brand gray at module level
PaletteScripts == {CAPG, F5G, C20, COOL, FIXED, CONV, F500, REALCAP}

\* the chart scripts among them: their colours are hex strings
ChartScripts == {CAPG, F5G, C20, COOL, FIXED, CONV}

\* reportlab's HexColor: the colour's red, green and blue of 255
HexColor(hex) ==
    CASE hex = "#CC0000" -> <<204, 0, 0>>
      [] hex = "#6B7C93" -> <<107, 124, 147>>

\* cap_colors of create_cap_graphics: primary and secondary
cap_colors == [red |-> "#ED1B2E", gray |-> "#6B7280"]

\* ARC_COLORS of fortune500_graphics: primary and secondary
ARC_COLORS == [red |-> "#CC0000", gray |-> "#6B7C93"]

\* ARC_RED and ARC_GRAY of the other chart scripts
ARC_RED_GRAY == [red |-> "#CC0000", gray |-> "#6B7C93"]

\* ARC_RED and ARC_GRAY of the two PDF scripts that name them
ARC_HexColors == [red |-> HexColor("#CC0000"), gray |-> HexColor("#6B7C93")]

BrandColors(script) ==
    CASE script = CAPG -> cap_colors
      [] script = F5G -> ARC_COLORS
      [] script \in {C20, COOL, FIXED, CONV} -> ARC_RED_GRAY
      [] script \in {F500, REALCAP} -> ARC_HexColors

Unimported == [red |-> "", gray |-> ""]

\* a script is imported (or run): its module-level constants are defined
ImportScript ==
    /\ \E sc \in PaletteScripts :
         /\ palette[sc] = Unimported
         /\ palette' = [palette EXCEPT ![sc] = BrandColors(sc)]
    /\ UNCHANGED notPal

InitPaletteVars == palette = [sc \in PaletteScripts |-> Unimported]

IdlePalette == palette = [sc \in PaletteScripts |-> Unimported]

\* C10: every script that defines a brand red and a brand gray gives them the
\* same hex values: red and gray are each one value across all chart scripts.
C10_UniformPalette ==
    \A a, b \in ChartScripts :
        (palette[a] # Unimported /\ palette[b] # Unimported) =>
            /\ palette[a].red = palette[b].red
            /\ palette[a].gray = palette[b].gray

(***************************************************************************)
(* The figures of the cost-containment and Immediate Assistance charts.    *)
(* Dollar amounts are integers; rates, percentages and other decimals are  *)
(* integers in hundredths.  A text is the sequence of its pieces, so that  *)
(* a number an f-string placed in it, or its literal holds, can be read.   *)
(***************************************************************************)
RECURSIVE SumTo(_, _)
\* sum(values[1..n])
SumTo(values, n) == IF n = 0 THEN 0 ELSE SumTo(values, n - 1) + values[n]

\* sum(values)
Sum(values) == SumTo(values, Len(values))

\* f"{x:.1f}" of the value x given in hundredths: rounded to one decimal.
\* For a tie such as 14.55 the double nearest to it decides; the doubles
\* the charts produce lie above the tie, so the digit rounds up.
Format1f(hundredths) ==
    LET tenths == (hundredths + 5) \div 10
    IN ToString(tenths \div 10) \o "." \o ToString(tenths % 10)

\* go.Pie(labels=..., values=...)
Pie(labels, values) == [type |-> "pie", labels |-> labels, values |-> values]

\* go.Bar(name=..., x=..., y=...)
Bar(name, x, y) == [type |-> "bar", name |-> name, x |-> x, y |-> y]

\* go.Indicator(value=..., number={'prefix': ..., 'suffix': ...}) under its
\* subplot title
Indicator(title, value, prefix, suffix) ==
    [type |-> "indicator", title |-> title, value |-> value, prefix |-> prefix,
     suffix |-> suffix]

\* go.Figure with its traces and the texts of its annotations
Figure(traces, annotations) == [traces |-> traces, annotations |-> annotations]

\* create_cap_graphics.create_cost_breakdown
CapGraphics_create_cost_breakdown ==
    Figure(<< Pie(<<"Feeding Assistance", "Volunteer Labor", "Facilities",
                    "Emergency Supplies", "Equipment & Vehicles">>,
                  <<670000, 380000, 220000, 186305, 150000>>) >>,
           << <<"$1.6M", "<br>Total">> >>)

\* fortune500_graphics.create_cost_containment_donut
F5G_create_cost_containment_donut ==
    Figure(<< Pie(<<"Feeding Assistance", "Volunteer Labor", "Facilities & Equipment",
                    "Emergency Supplies", "Transportation">>,
                  <<670000, 380000, 220000, 186305, 150000>>) >>,
           << <<"<b>", "$1.6M", "</b><br>Total Savings">> >>)

\* a create_cost_containment_donut of create_20_visualizations whose 'Other'
\* slice is 150000
C20_create_cost_containment_donut_OtherSlice ==
    Figure(<< Pie(<<"Direct Services", "Volunteer Labor", "Facilities", "Equipment",
                    "Other">>,
                  <<650000, 450000, 200000, 150000, 150000>>) >>,
           << <<"$1.6M", "<br>Total Savings">> >>)

\* create_20_visualizations.create_cost_containment_donut
C20_create_cost_containment_donut ==
    Figure(<< Pie(<<"Direct Services", "Volunteer Labor", "Facilities", "Equipment",
                    "Other">>,
                  <<650000, 450000, 200000, 150000, 156305>>) >>,
           << <<"$1.6M", "<br>Total Savings">> >>)

\* create_20_visualizations.create_kpi_dashboard: the six indicators
C20_create_kpi_dashboard ==
    Figure(<< Indicator("Total ROI", 2830, "", "%"),
              Indicator("Cost Containment", 1606305, "$", ""),
              Indicator("Speed Advantage", 250, "", " days"),
              Indicator("Volunteer Growth", 3592, "", "%"),
              Indicator("IA Uptake Improvement", 1570, "", "pp"),
              Indicator("Homes Safer", 6624, "", "%") >>,
           << >>)

\* the four charted locations of create_cap_graphics and fortune500_graphics
IA_locations ==
    << "Terrebonne Parish<br>(Hurricane Francine)", "McNairy County<br>(TN Tornados)",
       "Warren County<br>(KY Floods)", "Cameron/Hidalgo<br>(South TX Floods)" >>

\* create_cap_graphics.create_ia_uptake: the annotation's number is a literal
CapGraphics_create_ia_uptake ==
    LET cap_rates == <<9300, 8070, 5380, 5830>>
        overall_rates == <<6700, 7530, 3430, 5100>>
    IN Figure(<< Bar("Overall DR Rate", IA_locations, overall_rates),
                 Bar("CAP-Supported Areas", IA_locations, cap_rates) >>,
              << <<"Average improvement: +", "15.7", " percentage points">> >>)

\* fortune500_graphics.create_ia_uptake_comparison: the annotation's number is
\* sum(improvements) / len(improvements), formatted with .1f
F5G_create_ia_uptake_comparison ==
    LET cap_rates == <<9300, 8070, 5380, 5830>>
        overall_rates == <<6700, 7530, 3430, 5100>>
        improvements == [i \in 1..Len(cap_rates) |-> cap_rates[i] - overall_rates[i]]
        avg_improvement == Sum(improvements) \div Len(improvements)
    IN Figure(<< Bar("Overall DR Rate", IA_locations, overall_rates),
                 Bar("CAP-Supported Areas", IA_locations, cap_rates) >>,
              << <<"<b>Average Improvement:</b><br>+", Format1f(avg_improvement),
                   " percentage points">> >>)

\* create_20_visualizations.create_ia_uptake_comparison
C20_create_ia_uptake_comparison ==
    LET categories == << "Hurricane Francine<br>(Terrebonne)", "Tennessee<br>Tornados",
                         "South Texas<br>Floods", "Kentucky<br>Floods" >>
        cap_rates == <<9300, 8070, 5830, 5380>>
        overall_rates == <<6700, 7530, 5100, 3430>>
    IN Figure(<< Bar("CAP Areas", categories, cap_rates),
                 Bar("Overall Average", categories, overall_rates) >>,
              << >>)

\* the chart functions of the model
ChartFunctions ==
    { "create_cap_graphics.create_cost_breakdown",
      "fortune500_graphics.create_cost_containment_donut",
      "create_20_visualizations.create_cost_containment_donut",
      "create_20_visualizations.create_kpi_dashboard",
      "create_cap_graphics.create_ia_uptake",
      "fortune500_graphics.create_ia_uptake_comparison",
      "create_20_visualizations.create_ia_uptake_comparison" }

\* calling chart function f
CallChart(f) ==
    CASE f = "create_cap_graphics.create_cost_breakdown" ->
           CapGraphics_create_cost_breakdown
      [] f = "fortune500_graphics.create_cost_containment_donut" ->
           F5G_create_cost_containment_donut
      [] f = "create_20_visualizations.create_cost_containment_donut" ->
           C20_create_cost_containment_donut
      [] f = "create_20_visualizations.create_kpi_dashboard" ->
           C20_create_kpi_dashboard
      [] f = "create_cap_graphics.create_ia_uptake" ->
           CapGraphics_create_ia_uptake
      [] f = "fortune500_graphics.create_ia_uptake_comparison" ->
           F5G_create_ia_uptake_comparison
      [] f = "create_20_visualizations.create_ia_uptake_comparison" ->
           C20_create_ia_uptake_comparison

\* no figure yet
NoFigure == Figure(<< >>, << <<"not created">> >>)

\* a chart function is called and returns its figure
CreateFigure ==
    /\ \E f \in ChartFunctions : figures' = [figures EXCEPT ![f] = CallChart(f)]
    /\ UNCHANGED notFig

InitFigureVars == figures = [f \in ChartFunctions |-> NoFigure]

IdleFigures == figures = [f \in ChartFunctions |-> NoFigure]

\* the donut charts
DonutFunctions ==
    { "create_cap_graphics.create_cost_breakdown",
      "fortune500_graphics.create_cost_containment_donut",
      "create_20_visualizations.create_cost_containment_donut" }

\* the indicator of figure fig under subplot title t
IndicatorOf(fig, t) ==
    fig.traces[CHOOSE i \in 1..Len(fig.traces) : fig.traces[i].title = t]

\* a dollar amount as a label in millions with one decimal
MillionsLabel(dollars) ==
    LET tenths == (dollars + 50000) \div 100000
    IN "$" \o ToString(tenths \div 10) \o "." \o ToString(tenths % 10) \o "M"

\* the pieces of the texts of a figure's annotations
Pieces(fig) ==
    UNION { { fig.annotations[a][k] : k \in 1..Len(fig.annotations[a]) } :
              a \in 1..Len(fig.annotations) }

\* C12: in every cost-containment donut chart (create_cap_graphics,
\* fortune500_graphics, create_20_visualizations) the category values sum to
\* exactly 1,606,305, the value of the KPI dashboard's cost-containment
\* indicator, and the chart labels that total '$1.6M'.
C12_DonutTotal ==
    \A f \in DonutFunctions :
        figures[f] # NoFigure =>
            LET total == Sum(figures[f].traces[1].values) IN
              /\ total = 1606305
              /\ total = IndicatorOf(C20_create_kpi_dashboard, "Cost Containment").value
              /\ (figures["create_20_visualizations.create_kpi_dashboard"] # NoFigure =>
                    total = IndicatorOf(figures["create_20_visualizations.create_kpi_dashboard"],
                                        "Cost Containment").value)
              /\ MillionsLabel(total) = "$1.6M"
              /\ MillionsLabel(total) \in Pieces(figures[f])

\* the three donut charts and the KPI dashboard have all been created
C12_Witness ==
    /\ \A f \in DonutFunctions :
         figures[f] # NoFigure /\ figures[f].traces[1].type = "pie"
    /\ figures["create_20_visualizations.create_kpi_dashboard"] # NoFigure

\* the average Immediate Assistance improvement of a figure's charted data:
\* the mean over the locations of CAP rate minus overall rate, in hundredths
\* of a percentage point
MeanImprovement(cap_rates, overall_rates) ==
    Sum([i \in 1..Len(cap_rates) |-> cap_rates[i] - overall_rates[i]]) \div Len(cap_rates)

\* the bar trace of figure fig named one of names
BarOf(fig, names) ==
    fig.traces[CHOOSE i \in 1..Len(fig.traces) : fig.traces[i].name \in names]

\* the mean improvement in the bars of figure fig
ChartedMean(fig) ==
    MeanImprovement(BarOf(fig, {"CAP-Supported Areas", "CAP Areas"}).y,
                    BarOf(fig, {"Overall DR Rate", "Overall Average"}).y)

\* the Immediate Assistance bar charts that display an average improvement
IA_AnnotatedFunctions ==
    { "create_cap_graphics.create_ia_uptake",
      "fortune500_graphics.create_ia_uptake_comparison" }

\* C13: the average Immediate Assistance improvement that the charts display
\* (+15.7 percentage points) equals the mean, over the four charted
\* locations, of CAP rate minus overall rate in the charted data.
C13_DisplayedAverageIsMean ==
    /\ \A f \in IA_AnnotatedFunctions :
         figures[f] # NoFigure =>
             /\ Len(BarOf(figures[f], {"CAP-Supported Areas"}).y) = 4
             /\ figures[f].annotations[1][2] = Format1f(ChartedMean(figures[f]))
             /\ figures[f].annotations[1][2] = "15.7"
    /\ LET kpi == "create_20_visualizations.create_kpi_dashboard"
           ia == "create_20_visualizations.create_ia_uptake_comparison"
       IN (figures[kpi] # NoFigure /\ figures[ia] # NoFigure) =>
             /\ IndicatorOf(figures[kpi], "IA Uptake Improvement").value = 1570
             /\ Format1f(IndicatorOf(figures[kpi], "IA Uptake Improvement").value)
                  = Format1f(ChartedMean(figures[ia]))

(***************************************************************************)
(* create_pdf_simple.CalloutBox.  The content is the sequence of the       *)
(* lengths of its words, separated by single spaces; a line is its length  *)
(* in characters; lengths on the page are hundredths of an inch.           *)
(***************************************************************************)
\* reportlab.lib.units.inch, in hundredths of an inch
inch == 100

\* the word lengths the contents are made of
WordLengths == {1, 40, 64}

\* the contents: up to MaxWords words
Contents == UNION { [1..n -> WordLengths] : n \in 0..MaxWords }

\* len(self.content)
CharCount(words) == IF Len(words) = 0 THEN 0 ELSE Sum(words) + Len(words) - 1

\* CalloutBox._calculate_height
_calculate_height(words) ==
    LET char_count == CharCount(words)
    IN IF char_count < 50 THEN (10 * inch) \div 10
       ELSE IF char_count < 100 THEN (13 * inch) \div 10
       ELSE IF char_count < 150 THEN (16 * inch) \div 10
       ELSE (20 * inch) \div 10

\* draw's max_chars_per_line
max_chars_per_line == 65

RECURSIVE WrapFrom(_, _, _, _)
\* draw's loop over the words from word i on, with current_line (0 when it
\* is the empty string) and the lines appended so far; then the final append
WrapFrom(words, i, current_line, acc) ==
    IF i > Len(words)
    THEN IF current_line # 0 THEN Append(acc, current_line) ELSE acc
    ELSE IF current_line + 1 + words[i] <= max_chars_per_line
         THEN WrapFrom(words, i + 1,
                       IF current_line # 0 THEN current_line + 1 + words[i] ELSE words[i],
                       acc)
         ELSE WrapFrom(words, i + 1, words[i],
                       IF current_line # 0 THEN Append(acc, current_line) ELSE acc)

\* draw: the lines the content is split into
Wrap(words) == WrapFrom(words, 1, 0, << >>)

RECURSIVE DrawFrom(_, _, _, _)
\* draw's loop over the lines from line i on: a line is drawn, and y_position
\* lowered by 0.18 inch, only while y_position > 0.2 inch
DrawFrom(ls, i, y_position, acc) ==
    IF i > Len(ls) THEN acc
    ELSE IF y_position * 100 > 20 * inch
         THEN DrawFrom(ls, i + 1, y_position - (18 * inch) \div 100, acc \cup {i})
         ELSE DrawFrom(ls, i + 1, y_position, acc)

\* CalloutBox.__init__
CalloutBox_init ==
    /\ box_pc = "new"
    /\ height' = _calculate_height(content)
    /\ box_pc' = "constructed"
    /\ UNCHANGED <<content, lines, drawn>>
    /\ UNCHANGED notBox

\* CalloutBox.draw
draw ==
    /\ box_pc = "constructed"
    /\ lines' = Wrap(content)
    /\ drawn' = DrawFrom(Wrap(content), 1, height - (55 * inch) \div 100, {})
    /\ box_pc' = "drawn"
    /\ UNCHANGED <<content, height>>
    /\ UNCHANGED notBox

InitBoxVars ==
    /\ content \in Contents
    /\ box_pc = "new"
    /\ height = 0
    /\ lines = << >>
    /\ drawn = {}

IdleBox ==
    /\ content = << >>
    /\ box_pc = "idle"
    /\ height = 0
    /\ lines = << >>
    /\ drawn = {}

\* C14: for every content string, CalloutBox draws every wrapped line of the
\* content inside the box: the height _calculate_height chooses from the
\* content length (1.0, 1.3, 1.6 or 2.0 inch for lengths below 50, below 100,
\* below 150, otherwise) leaves room for all lines above the 0.2-inch bottom
\* margin, so no text is dropped.
C14_AllLinesDrawn ==
    box_pc = "drawn" =>
        /\ height = (IF CharCount(content) < 50 THEN 100
                     ELSE IF CharCount(content) < 100 THEN 130
                     ELSE IF CharCount(content) < 150 THEN 160 ELSE 200)
        /\ drawn = 1..Len(lines)

(***************************************************************************)
(* The specifications.                                                     *)
(***************************************************************************)
InitCanvas ==
    /\ InitCanvasVars /\ IdleStory /\ IdleConv /\ IdleRun /\ IdleRng /\ IdlePalette
    /\ IdleFigures /\ IdleBox
NextCanvas == DocDraw \/ showPage \/ save
SpecCanvas == InitCanvas /\ [][NextCanvas]_vars

InitStory ==
    /\ InitStoryVars /\ IdleCanvas /\ IdleConv /\ IdleRun /\ IdleRng /\ IdlePalette
    /\ IdleFigures /\ IdleBox
NextStory == AddVisualization
SpecStory == InitStory /\ [][NextStory]_vars

InitConvert ==
    /\ InitConvVars /\ IdleCanvas /\ IdleStory /\ IdleRun /\ IdleRng /\ IdlePalette
    /\ IdleFigures /\ IdleBox
NextConvert == ConvertOne \/ ConvertFinish
SpecConvert == InitConvert /\ [][NextConvert]_vars

InitRun ==
    /\ InitRunVars /\ IdleCanvas /\ IdleStory /\ IdleConv /\ IdleRng /\ IdlePalette
    /\ IdleFigures /\ IdleBox
NextRun == StepReturns \/ StepRaises \/ RunFinish
SpecRun == InitRun /\ [][NextRun]_vars

InitData ==
    /\ InitRngVars /\ IdleCanvas /\ IdleStory /\ IdleConv /\ IdleRun /\ IdlePalette
    /\ IdleFigures /\ IdleBox
NextData == StartInterpreter \/ CallFunction
SpecData == InitData /\ [][NextData]_vars

InitPalette ==
    /\ InitPaletteVars /\ IdleCanvas /\ IdleStory /\ IdleConv /\ IdleRun /\ IdleRng
    /\ IdleFigures /\ IdleBox
NextPalette == ImportScript
SpecPalette == InitPalette /\ [][NextPalette]_vars

InitFigures ==
    /\ InitFigureVars /\ IdleCanvas /\ IdleStory /\ IdleConv /\ IdleRun /\ IdleRng
    /\ IdlePalette /\ IdleBox
NextFigures == CreateFigure
SpecFigures == InitFigures /\ [][NextFigures]_vars

InitBox ==
    /\ InitBoxVars /\ IdleCanvas /\ IdleStory /\ IdleConv /\ IdleRun /\ IdleRng
    /\ IdlePalette /\ IdleFigures
NextBox == CalloutBox_init \/ draw
SpecBox == InitBox /\ [][NextBox]_vars

====
